---- MODULE Spec2Model ----
(***************************************************************************)
(* The physics / particle kernel of lander.py: the Ship (throttle, fuel,   *)
(* rotation, kinematics), the Spark list (spawn, ageing, expiry) and the   *)
(* frame loop of main() that drives them.                                  *)
(*                                                                         *)
(* Numbers.  Python floats are IEEE-754 binary64.  Every quantity the code *)
(* branches on (throttle, fuel, fuel_burned, the spark count, spark ages)  *)
(* is computed here in exact binary64 arithmetic, round-to-nearest-even,   *)
(* on arbitrary-precision naturals kept as digit sequences.  The ship's    *)
(* velocity passes through cos, sin, atan2 and sqrt, which have no exact   *)
(* counterpart here: a velocity is kept as the sequence of the vectors     *)
(* Vector.__add__ has summed, and a position as the sequence of the steps  *)
(* (velocity, delta_t) added to the start position.                        *)
(***************************************************************************)
EXTENDS Integers, Sequences, FiniteSets

(***************************************************************************)
(* Naturals of any size: little-endian digit sequences in base 2^15, with  *)
(* no leading zero digit (the empty sequence is 0).                        *)
(***************************************************************************)
Base == 2^15

Hd(s) == IF s = <<>> THEN 0 ELSE Head(s)

Tl(s) == IF s = <<>> THEN <<>> ELSE Tail(s)

RECURSIVE NStrip(_)
NStrip(s) ==
  IF s = <<>> THEN <<>>
  ELSE IF s[Len(s)] = 0 THEN NStrip(SubSeq(s, 1, Len(s) - 1))
  ELSE s

RECURSIVE NFromInt(_)
NFromInt(n) == IF n = 0 THEN <<>> ELSE <<n % Base>> \o NFromInt(n \div Base)

RECURSIVE NToInt(_)
NToInt(s) == IF s = <<>> THEN 0 ELSE Head(s) + Base * NToInt(Tail(s))

RECURSIVE NAddC(_, _, _)
NAddC(a, b, c) ==
  IF a = <<>> /\ b = <<>> THEN (IF c = 0 THEN <<>> ELSE <<c>>)
  ELSE LET x == Hd(a) + Hd(b) + c
       IN  <<x % Base>> \o NAddC(Tl(a), Tl(b), x \div Base)

NAdd(a, b) == NAddC(a, b, 0)

RECURSIVE NSubB(_, _, _)
NSubB(a, b, c) ==
  IF a = <<>> THEN <<>>
  ELSE LET x == Hd(a) - Hd(b) - c
       IN  <<x % Base>> \o NSubB(Tl(a), Tl(b), IF x < 0 THEN 1 ELSE 0)

\* a - b, for a >= b
NSub(a, b) == NStrip(NSubB(a, b, 0))

RECURSIVE NCmpFrom(_, _, _)
NCmpFrom(a, b, i) ==
  IF i = 0 THEN 0
  ELSE IF a[i] < b[i] THEN -1
  ELSE IF a[i] > b[i] THEN 1
  ELSE NCmpFrom(a, b, i - 1)

\* -1, 0, 1 as a < b, a = b, a > b
NCmp(a, b) ==
  IF Len(a) < Len(b) THEN -1
  ELSE IF Len(a) > Len(b) THEN 1
  ELSE NCmpFrom(a, b, Len(a))

RECURSIVE NMulSmallC(_, _, _)
NMulSmallC(a, k, c) ==
  IF a = <<>> THEN (IF c = 0 THEN <<>> ELSE <<c>>)
  ELSE LET x == Head(a) * k + c
       IN  <<x % Base>> \o NMulSmallC(Tail(a), k, x \div Base)

\* a * k, for a digit k < Base
NMulSmall(a, k) == IF k = 0 THEN <<>> ELSE NMulSmallC(a, k, 0)

RECURSIVE NMul(_, _)
NMul(a, b) ==
  IF a = <<>> \/ b = <<>> THEN <<>>
  ELSE LET rest == NMul(a, Tail(b))
       IN  NAdd(NMulSmall(a, Head(b)),
                IF rest = <<>> THEN <<>> ELSE <<0>> \o rest)

Zeros(n) == [i \in 1..n |-> 0]

\* a * 2^n
NShl(a, n) ==
  IF a = <<>> THEN <<>>
  ELSE Zeros(n \div 15) \o NMulSmall(a, 2^(n % 15))

RECURSIVE NShrBits(_, _)
NShrBits(a, r) ==
  IF a = <<>> THEN <<>>
  ELSE <<(Head(a) \div 2^r) + (Hd(Tail(a)) % 2^r) * 2^(15 - r)>>
       \o NShrBits(Tail(a), r)

\* floor(a / 2^n)
NShr(a, n) ==
  IF n \div 15 >= Len(a) THEN <<>>
  ELSE NStrip(NShrBits(SubSeq(a, n \div 15 + 1, Len(a)), n % 15))

RECURSIVE BitsOf(_)
BitsOf(d) == IF d = 0 THEN 0 ELSE 1 + BitsOf(d \div 2)

NBitLen(a) == IF a = <<>> THEN 0 ELSE 15 * (Len(a) - 1) + BitsOf(a[Len(a)])

NIsOdd(a) == Hd(a) % 2 = 1

(***************************************************************************)
(* binary64.  A float is [neg, m, e] with value (-1)^neg * m * 2^e, where  *)
(* m is 0 (and then neg = FALSE, e = 0) or 2^52 <= m < 2^53.  Every        *)
(* operation computes the exact result and rounds it to nearest, ties to   *)
(* even, as Python's +, -, * and / do.  The magnitudes of this program     *)
(* stay far from the subnormal and overflow ranges.                        *)
(***************************************************************************)
FZero == [neg |-> FALSE, m |-> <<>>, e |-> 0]

\* the float nearest to (-1)^neg * M * 2^E
FRound(neg, M, E) ==
  IF M = <<>> THEN FZero
  ELSE LET L == NBitLen(M)
       IN  IF L <= 53
           THEN [neg |-> neg, m |-> NShl(M, 53 - L), e |-> E - (53 - L)]
           ELSE LET sh   == L - 53
                    q    == NShr(M, sh)
                    rem  == NSub(M, NShl(q, sh))
                    c    == NCmp(rem, NShl(<<1>>, sh - 1))
                    up   == c = 1 \/ (c = 0 /\ NIsOdd(q))
                    q1   == IF up THEN NAdd(q, <<1>>) ELSE q
                IN  IF NBitLen(q1) = 54
                    THEN [neg |-> neg, m |-> NShr(q1, 1), e |-> E + sh + 1]
                    ELSE [neg |-> neg, m |-> q1, e |-> E + sh]

FromInt(n) == FRound(n < 0, NFromInt(IF n < 0 THEN -n ELSE n), 0)

FNeg(a) == IF a.m = <<>> THEN a ELSE [a EXCEPT !.neg = ~a.neg]

FMul(a, b) == FRound(a.neg # b.neg, NMul(a.m, b.m), a.e + b.e)

FAdd(a, b) ==
  IF a.m = <<>> THEN b
  ELSE IF b.m = <<>> THEN a
  ELSE LET e  == IF a.e < b.e THEN a.e ELSE b.e
           Ma == NShl(a.m, a.e - e)
           Mb == NShl(b.m, b.e - e)
           c  == NCmp(Ma, Mb)
       IN  IF a.neg = b.neg THEN FRound(a.neg, NAdd(Ma, Mb), e)
           ELSE IF c = 0 THEN FZero
           ELSE IF c = 1 THEN FRound(a.neg, NSub(Ma, Mb), e)
           ELSE FRound(b.neg, NSub(Mb, Ma), e)

FSub(a, b) == FAdd(a, FNeg(b))

\* the quotient bits of r / d, most significant first: n more bits after q
\* (the test on Len(q) makes the evaluator compute q at every step)
RECURSIVE DivBits(_, _, _, _)
DivBits(r, d, q, n) ==
  IF Len(q) >= 0 /\ n = 0 THEN <<q, r>>
  ELSE LET ge == NCmp(r, d) >= 0
           r1 == IF ge THEN NSub(r, d) ELSE r
       IN  DivBits(NShl(r1, 1), d,
                   NAdd(NShl(q, 1), IF ge THEN <<1>> ELSE <<>>), n - 1)

\* a / b for b # 0: exact when b is a power of two, else 56 quotient bits
\* and a sticky bit for the remainder
FDiv(a, b) ==
  IF a.m = <<>> THEN FZero
  ELSE IF b.m = <<0, 0, 0, 128>>
  THEN [neg |-> a.neg # b.neg, m |-> a.m, e |-> a.e - b.e - 52]
  ELSE LET qr == DivBits(a.m, b.m, <<>>, 56)
           M  == NAdd(NShl(qr[1], 1), IF qr[2] = <<>> THEN <<>> ELSE <<1>>)
       IN  FRound(a.neg # b.neg, M, a.e - b.e - 56)

\* |a| < |b|
MagLt(a, b) ==
  IF b.m = <<>> THEN FALSE
  ELSE IF a.m = <<>> THEN TRUE
  ELSE a.e < b.e \/ (a.e = b.e /\ NCmp(a.m, b.m) = -1)

\* a < b, a > b, a <= b
FLt(a, b) ==
  IF a.neg /\ ~b.neg THEN TRUE
  ELSE IF ~a.neg /\ b.neg THEN FALSE
  ELSE IF a.neg THEN MagLt(b, a)
  ELSE MagLt(a, b)

FGt(a, b) == FLt(b, a)

FLe(a, b) == ~FLt(b, a)

\* int(a): the integer part, towards zero
FInt(a) ==
  LET mag == IF a.m = <<>> THEN 0
             ELSE IF a.e >= 0 THEN NToInt(NShl(a.m, a.e))
             ELSE NToInt(NShr(a.m, -a.e))
  IN  IF a.neg THEN -mag ELSE mag

(***************************************************************************)
(* The constants of lander.py.                                             *)
(***************************************************************************)
Pi == [neg |-> FALSE, m |-> <<11544, 10376, 2029, 201>>, e |-> -51]

HALF_PI == FDiv(Pi, FromInt(2))

EMPTY_MASS == 5000

EXHAUST_VELOCITY == 500

G == FromInt(10)

THROTTLE_MAX == 600

TURN_RATE == FDiv(FromInt(2), FromInt(10))

MAX_Y == 768

SPARKS_PER_KG == FDiv(FromInt(1), FromInt(2))

SPARK_LIFETIME == 1

SPARK_START_RGBA == <<255, 255, 255, 255>>

SPARK_END_RGBA == <<80, 40, 20, 20>>

SPARK_START_RADIUS == 1

SPARK_END_RADIUS == 8

INITIAL_FUEL == 5000

INITIAL_SPEED == 20

\* the throttle step of increase_throttle and decrease_throttle: 0.1
THROTTLE_STEP == FDiv(FromInt(1), FromInt(10))

FOne == FromInt(1)

scale(start, end, s) == FInt(FAdd(FMul(s, FromInt(end - start)), FromInt(start)))

Vector(direction, magnitude) == [direction |-> direction, magnitude |-> magnitude]

\* Vector.__add__: the sum, kept as the sequence of its terms
VectorAdd(v, w) == Append(v, w)

\* x += horizontal_component() * delta_t; y += vertical_component() * delta_t
Advance(pos, v, delta_t) ==
  [pos EXCEPT !.steps = Append(@, [velocity |-> v, delta_t |-> delta_t])]

(***************************************************************************)
(* The inputs.  main() takes delta_t from the pygame clock, the time from  *)
(* time.time(), wheel events and the z / x keys.  A run follows one of a   *)
(* few bounded input scenarios, chosen at the start.                       *)
(***************************************************************************)
MaxFrames == 3

\* wheel events in a run: enough to reach full throttle from 0, a short
\* up-and-down sequence, and a few
WheelClicks == 11

JogClicks == 6

IdleClicks == 2

DT_ZERO == FZero

\* one frame at 30 frames per second
DT_FRAME == FDiv(FromInt(1), FromInt(30))

\* a long stall of the frame loop: 600 kg/s * 25/3 s = 5000 kg at full throttle
DT_LONG == FDiv(FromInt(25), FromInt(3))

HALF_SECOND == FDiv(FromInt(1), FromInt(2))

\* a value of time.time(): 2^30 seconds after the epoch
START_TIME == FromInt(2^30)

Scenarios ==
  { [name |-> "burn", dts |-> {DT_LONG}, advs |-> {FZero}, rots |-> {0},
     wheel |-> {"up"}, clicks |-> WheelClicks],
    [name |-> "frame", dts |-> {DT_FRAME}, advs |-> {FZero}, rots |-> {0},
     wheel |-> {"up"}, clicks |-> WheelClicks],
    [name |-> "jog", dts |-> {DT_LONG}, advs |-> {FZero}, rots |-> {0},
     wheel |-> {"up", "down"}, clicks |-> JogClicks],
    [name |-> "still", dts |-> {DT_ZERO, DT_FRAME}, advs |-> {FZero},
     rots |-> {0}, wheel |-> {"up"}, clicks |-> IdleClicks],
    [name |-> "sparks", dts |-> {DT_FRAME}, advs |-> {FZero, HALF_SECOND},
     rots |-> {0}, wheel |-> {"up"}, clicks |-> IdleClicks],
    [name |-> "turn", dts |-> {DT_FRAME}, advs |-> {FZero},
     rots |-> {-1, 0, 1}, wheel |-> {"up", "down"}, clicks |-> IdleClicks] }

(***************************************************************************)
(* The state.  position .. fuel are the fields of the one Ship; sparks is  *)
(* Spark.sparks, newest first, kept as runs: a run is the n sparks one     *)
(* Ship.update call created, which share start_time, age and the position  *)
(* and direction passed to Spark.__init__ (each spark adds its own random  *)
(* draw to direction and speed), and steps lists the delta_t of every      *)
(* Spark.update applied to them.  screen is what draw_all drew last.       *)
(* pc, frames, delta_t and clock are main()'s place in its loop, the       *)
(* number of frames begun, its delta_t and the last value of time.time().  *)
(* last records the last call and the state before it, streak the number   *)
(* of consecutive increase_throttle calls made from throttle 0 with fuel   *)
(* left, clicks the number of wheel events so far.                         *)
(***************************************************************************)
VARIABLES position, velocity, orientation, throttle, rotation, fuel,
          sparks, screen, pc, frames, delta_t, clock, env, last, streak,
          clicks

ship == <<position, velocity, orientation, throttle, rotation, fuel>>

vars == <<position, velocity, orientation, throttle, rotation, fuel,
          sparks, screen, pc, frames, delta_t, clock, env, last, streak,
          clicks>>

Snapshot ==
  [position |-> position, velocity |-> velocity, orientation |-> orientation,
   throttle |-> throttle, rotation |-> rotation, fuel |-> fuel,
   sparks |-> sparks]

Call(op, dt, now, fuel_burned) ==
  [op |-> op, delta_t |-> dt, now |-> now, fuel_burned |-> fuel_burned,
   pre |-> Snapshot]

\* Ship.__init__, and main() up to its loop
Init ==
  /\ position = [origin |-> <<0, MAX_Y>>, steps |-> <<>>]
  /\ velocity = <<Vector(FZero, FromInt(INITIAL_SPEED))>>
  /\ orientation = FZero
  /\ throttle = FZero
  /\ rotation = 0
  /\ fuel = FromInt(INITIAL_FUEL)
  /\ sparks = <<>>
  /\ screen = <<>>
  /\ pc = "update"
  /\ frames = 0
  /\ delta_t = FZero
  /\ clock = START_TIME
  /\ env \in Scenarios
  /\ last = [op |-> "init", delta_t |-> FZero, now |-> START_TIME,
             fuel_burned |-> FZero,
             pre |-> [position |-> [origin |-> <<0, MAX_Y>>, steps |-> <<>>],
                      velocity |-> <<Vector(FZero, FromInt(INITIAL_SPEED))>>,
                      orientation |-> FZero, throttle |-> FZero,
                      rotation |-> 0, fuel |-> FromInt(INITIAL_FUEL),
                      sparks |-> <<>>]]
  /\ streak = 0
  /\ clicks = 0

(***************************************************************************)
(* Ship.                                                                   *)
(***************************************************************************)
\* Ship.mass
mass(f) == FAdd(f, FromInt(EMPTY_MASS))

\* a slip: gravity added pointing up
GravityUp(dt) == Vector(HALF_PI, FMul(G, dt))

\* the gravity vector of one tick
Gravity(dt) == Vector(FNeg(HALF_PI), FMul(G, dt))

\* fuel_burned = self.throttle * THROTTLE_MAX * delta_t
Demand(th, dt) == FMul(FMul(th, FromInt(THROTTLE_MAX)), dt)

\* a slip: the test for running out of fuel left out
RunsOutNever(fuel_burned, f) == FALSE

\* the tick runs out of fuel: fuel_burned > self.fuel
RunsOut(fuel_burned, f) == FGt(fuel_burned, f)

\* a slip: += for -=
RemainingAdded(f, fuel_burned) == FAdd(f, fuel_burned)

\* self.fuel -= fuel_burned
Remaining(f, fuel_burned) == FSub(f, fuel_burned)

\* the thrust vector: direction orientation + HALF_PI, magnitude
\* momentum / self.mass(), the mass being that of the fuel left
Thrust(o, fuel_burned, f) ==
  Vector(FAdd(o, HALF_PI),
         FDiv(FMul(fuel_burned, FromInt(EXHAUST_VELOCITY)), mass(f)))

\* a slip: one spark per kg
SparkCountPerKg(fuel_burned) == FInt(fuel_burned)

\* int(fuel_burned * SPARKS_PER_KG)
SparkCount(fuel_burned) == FInt(FMul(fuel_burned, SPARKS_PER_KG))

\* a slip: append for insert(0, ...)
SpawnAtEnd(list, n, pos, direction, now) ==
  IF n <= 0 THEN list
  ELSE list \o <<[n |-> n, start_time |-> now, age |-> FZero,
                   position |-> pos, direction |-> direction,
                   steps |-> <<>>]>>

\* the sparks of one Ship.update: n calls of Spark(position, direction, now),
\* each inserting itself at index 0
Spawn(list, n, pos, direction, now) ==
  IF n <= 0 THEN list
  ELSE <<[n |-> n, start_time |-> now, age |-> FZero, position |-> pos,
          direction |-> direction, steps |-> <<>>]>> \o list

\* self.orientation += self.rotation * TURN_RATE * delta_t
Turn(o, r, dt) == FAdd(o, FMul(FMul(FromInt(r), TURN_RATE), dt))

\* Ship.update(delta_t, now)
Update(dt, now) ==
  LET pos1    == Advance(position, velocity, dt)
      v1      == VectorAdd(velocity, Gravity(dt))
      burning == FGt(throttle, FZero)
      demand  == Demand(throttle, dt)
      out     == burning /\ RunsOut(demand, fuel)
      burned  == IF ~burning THEN FZero ELSE IF out THEN fuel ELSE demand
      fuel1   == IF ~burning THEN fuel
                 ELSE IF out THEN FZero ELSE Remaining(fuel, demand)
  IN  /\ last' = Call("update", dt, now, burned)
      /\ position' = pos1
      /\ velocity' = IF burning
                     THEN VectorAdd(v1, Thrust(orientation, burned, fuel1))
                     ELSE v1
      /\ fuel' = fuel1
      /\ throttle' = IF out THEN FZero ELSE throttle
      /\ sparks' = IF burning
                   THEN Spawn(sparks, SparkCount(burned), pos1,
                              FSub(orientation, HALF_PI), now)
                   ELSE sparks
      /\ orientation' = IF rotation # 0 THEN Turn(orientation, rotation, dt)
                        ELSE orientation
      /\ UNCHANGED rotation

\* a slip: the fuel test left out
HasFuelAlways(f) == TRUE

\* if self.fuel:
HasFuel(f) == f # FZero

\* a slip: the clamp at 1.0 left out
RaiseThrottleUnclamped(t) == FAdd(t, THROTTLE_STEP)

\* self.throttle += 0.1, and 1.0 if that is above 1.0
RaiseThrottle(t) ==
  LET t1 == FAdd(t, THROTTLE_STEP) IN IF FGt(t1, FOne) THEN FOne ELSE t1

\* self.throttle -= 0.1, and 0 if that is below 0.0
LowerThrottle(t) ==
  LET t1 == FSub(t, THROTTLE_STEP) IN IF FLt(t1, FZero) THEN FZero ELSE t1

(***************************************************************************)
(* Spark.                                                                  *)
(***************************************************************************)
\* spark.age = (now - spark.start_time) / SPARK_LIFETIME
Age(spark, now) == FDiv(FSub(now, spark.start_time), FromInt(SPARK_LIFETIME))

\* slips: >= for >, and no expiry at all
ExpiredAtOne(age) == FLe(FOne, age)

ExpiredNever(age) == FALSE

\* if spark.age > 1
Expired(age) == FGt(age, FOne)

\* Spark.update(delta_t)
SparkUpdate(spark, dt) == [spark EXCEPT !.steps = Append(@, dt)]

\* the loop of Spark.update_all: front to back, cut at the first expired
RECURSIVE Scan(_, _, _)
Scan(list, dt, now) ==
  IF list = <<>> THEN <<>>
  ELSE LET a == Age(Head(list), now)
       IN  IF Expired(a) THEN <<>>
           ELSE <<SparkUpdate([Head(list) EXCEPT !.age = a], dt)>>
                \o Scan(Tail(list), dt, now)

\* Spark.draw: the circle pygame is asked for
Circle(spark) ==
  [n |-> spark.n,
   radius |-> scale(SPARK_START_RADIUS, SPARK_END_RADIUS, spark.age),
   rgba |-> [k \in 1..4 |->
               scale(SPARK_START_RGBA[k], SPARK_END_RGBA[k], spark.age)]]

(***************************************************************************)
(* The frame loop of main().                                               *)
(***************************************************************************)
\* delta_t = clock.tick(30) / 1000.0; ship.update(delta_t, time.time())
ShipUpdate ==
  /\ pc = "update"
  /\ frames < MaxFrames
  /\ \E dt \in env.dts, adv \in env.advs :
        /\ delta_t' = dt
        /\ clock' = FAdd(clock, adv)
        /\ Update(dt, FAdd(clock, adv))
  /\ frames' = frames + 1
  /\ pc' = "sparks"
  /\ streak' = 0
  /\ UNCHANGED <<screen, env, clicks>>

\* Spark.update_all(delta_t, time.time())
UpdateAll ==
  /\ pc = "sparks"
  /\ \E adv \in env.advs :
        /\ clock' = FAdd(clock, adv)
        /\ sparks' = Scan(sparks, delta_t, FAdd(clock, adv))
        /\ last' = Call("update_all", delta_t, FAdd(clock, adv), FZero)
  /\ pc' = "events"
  /\ UNCHANGED <<ship, screen, frames, delta_t, env, streak, clicks>>

\* Ship.increase_throttle, on a mousewheel-up event
IncreaseThrottle ==
  /\ pc = "events"
  /\ "up" \in env.wheel
  /\ clicks < env.clicks
  /\ clicks' = clicks + 1
  /\ throttle' = IF HasFuel(fuel) THEN RaiseThrottle(throttle) ELSE throttle
  /\ streak' = IF throttle = FZero /\ fuel # FZero THEN 1
               ELSE IF streak > 0 THEN streak + 1 ELSE 0
  /\ last' = Call("increase_throttle", FZero, clock, FZero)
  /\ UNCHANGED <<position, velocity, orientation, rotation, fuel,
                 sparks, screen, pc, frames, delta_t, clock, env>>

\* Ship.decrease_throttle, on a mousewheel-down event
DecreaseThrottle ==
  /\ pc = "events"
  /\ "down" \in env.wheel
  /\ clicks < env.clicks
  /\ clicks' = clicks + 1
  /\ throttle' = LowerThrottle(throttle)
  /\ streak' = 0
  /\ last' = Call("decrease_throttle", FZero, clock, FZero)
  /\ UNCHANGED <<position, velocity, orientation, rotation, fuel,
                 sparks, screen, pc, frames, delta_t, clock, env>>

\* Ship.set_rotation(rotation), from the z and x keys, once a frame
SetRotation ==
  /\ pc = "events"
  /\ \E r \in env.rots : rotation' = r
  /\ pc' = "draw"
  /\ streak' = 0
  /\ last' = Call("set_rotation", FZero, clock, FZero)
  /\ UNCHANGED <<position, velocity, orientation, throttle, fuel,
                 sparks, screen, frames, delta_t, clock, env, clicks>>

\* Spark.draw_all(screen), after screen.fill
DrawAll ==
  /\ pc = "draw"
  /\ screen' = [i \in 1..Len(sparks) |-> Circle(sparks[i])]
  /\ pc' = "update"
  /\ last' = Call("draw_all", FZero, clock, FZero)
  /\ UNCHANGED <<ship, sparks, frames, delta_t, clock, env, streak, clicks>>

Next ==
  \/ ShipUpdate
  \/ UpdateAll
  \/ IncreaseThrottle
  \/ DecreaseThrottle
  \/ SetRotation
  \/ DrawAll

Spec == Init /\ [][Next]_vars

(***************************************************************************)
(* Properties.  last.pre is the state before the last call, last.delta_t   *)
(* and last.now its arguments.                                             *)
(***************************************************************************)
Updated == last.op = "update"

FMin(a, b) == IF FLt(b, a) THEN b ELSE a

RECURSIVE Total(_)
Total(list) == IF list = <<>> THEN 0 ELSE Head(list).n + Total(Tail(list))

\* what identifies the sparks of a run, apart from their age and motion
Ident(spark) ==
  [n |-> spark.n, start_time |-> spark.start_time,
   position |-> spark.position, direction |-> spark.direction]

Idents(list) == [i \in 1..Len(list) |-> Ident(list[i])]

ShipUnchanged ==
  /\ position = last.pre.position
  /\ velocity = last.pre.velocity
  /\ orientation = last.pre.orientation
  /\ throttle = last.pre.throttle
  /\ rotation = last.pre.rotation
  /\ fuel = last.pre.fuel

ThrottleInRange == FLe(FZero, throttle) /\ FLe(throttle, FOne)

\* C1: after every Ship.update that leaves fuel at 0, throttle is 0 too,
\* also when the fuel the burn asks for equals the fuel left exactly.
C1_ThrottleZeroWithFuel == (Updated /\ fuel = FZero) => throttle = FZero

\* C2: fuel >= 0 in every reachable state, so mass() >= EMPTY_MASS > 0 and
\* momentum / mass() never divides by zero.
C2_FuelNeverNegative ==
  /\ FLe(FZero, fuel)
  /\ FLe(FromInt(EMPTY_MASS), mass(fuel))
  /\ FGt(mass(fuel), FZero)

\* a tick that asked for more fuel than was left, and left none
C2_Witness ==
  /\ Updated
  /\ FGt(last.pre.throttle, FZero)
  /\ FGt(last.pre.fuel, FZero)
  /\ FGt(Demand(last.pre.throttle, last.delta_t), last.pre.fuel)
  /\ fuel = FZero

\* C3 as claimed: throttle stays in [0,1], and 10 or more consecutive
\* increase_throttle calls from throttle 0 with fuel left give exactly 1.0.
C3_TenClicksFull == ThrottleInRange /\ (streak >= 10 => throttle = FOne)

\* C3 amended: throttle stays in [0,1]; 11 or more consecutive
\* increase_throttle calls from throttle 0 with fuel left give exactly 1.0,
\* and exactly 10 give a throttle below 1.0.
C3_ElevenClicksFull ==
  /\ ThrottleInRange
  /\ streak >= 11 => throttle = FOne
  /\ streak = 10 => FLt(throttle, FOne)

C3_Witness == streak = 11 /\ throttle = FOne /\ last.op = "increase_throttle"

\* C4: no call adds fuel: the fuel after each call is <= the fuel before it.
C4_FuelNonIncreasing == FLe(fuel, last.pre.fuel)

C4_Witness ==
  Updated /\ FLt(fuel, last.pre.fuel) /\ FGt(fuel, FZero) /\ rotation # 0

\* C5: increase_throttle changes nothing while fuel is 0, and sets throttle
\* to min(1.0, throttle + 0.1) otherwise; from a state with fuel 0 and
\* throttle 0 every call leaves throttle at 0.
C5_IncreaseThrottle ==
  /\ (last.op = "increase_throttle" /\ last.pre.fuel = FZero)
        => ShipUnchanged /\ sparks = last.pre.sparks
  /\ (last.op = "increase_throttle" /\ last.pre.fuel # FZero)
        => /\ throttle = FMin(FOne, FAdd(last.pre.throttle, THROTTLE_STEP))
           /\ position = last.pre.position
           /\ velocity = last.pre.velocity
           /\ orientation = last.pre.orientation
           /\ rotation = last.pre.rotation
           /\ fuel = last.pre.fuel
  /\ (last.pre.fuel = FZero /\ last.pre.throttle = FZero)
        => throttle = FZero /\ fuel = FZero

C5_Witness ==
  /\ last.op = "increase_throttle"
  /\ last.pre.fuel = FZero
  /\ last.pre.throttle = FZero

\* C6: the spark list is ordered newest first: for i < j the spark at i
\* started no earlier than the spark at j.
C6_NewestFirst ==
  \A i, j \in 1..Len(sparks) :
     i < j => FLe(sparks[j].start_time, sparks[i].start_time)

C6_Witness ==
  /\ last.op = "update_all"
  /\ Len(sparks) >= 2
  /\ FLt(sparks[2].start_time, sparks[1].start_time)

\* C7: after Spark.update_all(delta_t, now) the list holds exactly the
\* sparks that had (now - start_time) / SPARK_LIFETIME <= 1, in their
\* previous order, and none of age > 1.
C7_ExpiryExact ==
  last.op = "update_all" =>
     /\ Idents(sparks) =
          Idents(SelectSeq(last.pre.sparks,
                           LAMBDA sp : FLe(Age(sp, last.now), FOne)))
     /\ \A i \in 1..Len(sparks) :
           /\ sparks[i].age = Age(sparks[i], last.now)
           /\ ~FGt(sparks[i].age, FOne)

\* update_all dropped an expired run and kept a newer one
C7_Witness ==
  /\ last.op = "update_all"
  /\ Len(sparks) >= 1
  /\ Len(sparks) < Len(last.pre.sparks)

\* C8: at every Spark.draw_all every spark has 0 <= age <= 1, those spawned
\* in the same frame included, so each circle's radius and colour channels
\* lie between their start and end values.
C8_AgeInRangeAtDraw ==
  /\ pc = "draw" =>
        \A i \in 1..Len(sparks) :
           FLe(FZero, sparks[i].age) /\ FLe(sparks[i].age, FOne)
  /\ last.op = "draw_all" =>
        \A i \in 1..Len(screen) :
           /\ SPARK_START_RADIUS <= screen[i].radius
           /\ screen[i].radius <= SPARK_END_RADIUS
           /\ \A k \in 1..4 :
                 /\ SPARK_END_RGBA[k] <= screen[i].rgba[k]
                 /\ screen[i].rgba[k] <= SPARK_START_RGBA[k]

\* a frame drawn with a spark at the end of its life and one just spawned
C8_Witness ==
  /\ last.op = "draw_all"
  /\ Len(sparks) >= 2
  /\ sparks[Len(sparks)].age = FOne
  /\ sparks[1].start_time = clock

\* C9: a tick with throttle > 0 burns min(throttle * THROTTLE_MAX * dt,
\* fuel), takes exactly that from fuel and puts
\* floor(fuel_burned * SPARKS_PER_KG) sparks at the front of the list, each
\* with start_time = now and the ship's position; from fuel 5000, throttle
\* 1.0 and dt = 1/30 that is 20 kg, fuel 4980 and 10 sparks.
C9_BurnTick ==
  (Updated /\ FGt(last.pre.throttle, FZero)) =>
     LET fb == FMin(Demand(last.pre.throttle, last.delta_t), last.pre.fuel)
         k  == FInt(FMul(fb, SPARKS_PER_KG))
     IN  /\ last.fuel_burned = fb
         /\ fuel = FSub(last.pre.fuel, fb)
         /\ Total(sparks) = Total(last.pre.sparks) + k
         /\ k > 0 =>
              /\ sparks = <<sparks[1]>> \o last.pre.sparks
              /\ sparks[1].n = k
              /\ sparks[1].start_time = last.now
              /\ sparks[1].position = position
         /\ k = 0 => sparks = last.pre.sparks
         /\ (/\ last.pre.fuel = FromInt(5000)
             /\ last.pre.throttle = FOne
             /\ last.delta_t = FDiv(FromInt(1), FromInt(30)))
              => /\ fb = FromInt(20)
                 /\ fuel = FromInt(4980)
                 /\ k = 10

C9_Witness ==
  /\ Updated
  /\ last.pre.fuel = FromInt(5000)
  /\ last.pre.throttle = FOne
  /\ last.delta_t = FDiv(FromInt(1), FromInt(30))
  /\ Total(sparks) = 10

====
